---- MODULE Spec2Model ----
(***************************************************************************)
(* Pdfpaste: the background-triggered batch clipboard pipeline.            *)
(*                                                                         *)
(*   AutoCopyService  (src/services/auto_copy_service.py)  the batch runner*)
(*   ClipboardService (src/services/clipboard_service.py)  copy and paste  *)
(*   KeyboardService  (src/services/keyboard_service.py)   hotkey watcher  *)
(*   MainWindow       (src/ui/main_window.py)              the wiring      *)
(*                                                                         *)
(* Time is counted in milliseconds.  A timer is a record with the time     *)
(* that remains until it expires; Tick lets time pass up to the next       *)
(* expiry, and a timer whose remaining time is 0 is due.  Handlers run on  *)
(* the Qt event loop of the main thread, one at a time, and take no time.  *)
(* Timers that are due at the same instant fire in either order: the       *)
(* repeating auto_copy_timer is a default QTimer (Qt::CoarseTimer, which   *)
(* Qt may fire up to 5% early or late) while QTimer.singleShot below 2 s   *)
(* is a precise timer, so equal nominal expiries are not ordered.          *)
(*                                                                         *)
(* Interval values (what interval_getter returns, a float in seconds) are  *)
(* counted in units of 0.1 ms, so that int(interval * 1000) truncates.     *)
(***************************************************************************)
EXTENDS Integers, Sequences, FiniteSets, Bags, TLC

VARIABLES
    \* ---- AutoCopyService (auto_copy_service.py:19-24)
    images_to_process,    \* the snapshot: a sequence of files
    current_image_index,  \* 0-based cursor into the snapshot
    is_auto_processing,   \* the running flag
    auto_copy_timer,      \* the repeating QTimer connected to process_next_image
    \* ---- the Qt event loop of the main thread
    single_shots,         \* pending QTimer.singleShot timers (a bag)
    command_r_queue,      \* queued emissions of command_r_signal
    \* ---- environment
    disk,                 \* image files present in the scratch directory
    temp_dir,             \* PDFDocument.temp_dir: TRUE when mkdtemp succeeded
    provider_value,       \* what interval_getter() returns when called now
    clipboard,            \* what the system clipboard holds
    \* ---- history (not program state)
    copy_log,             \* cursor values of the clipboard writes of the latest run
    \* ---- KeyboardService (keyboard_service.py:16-19)
    chord_held,           \* Option and Command are both down (OS state)
    kbd_is_running,       \* KeyboardService.is_running
    kbd_thread,           \* position of the polling thread
    press_count,          \* history: chord presses (not-held -> held)
    callback_count,       \* history: invocations of the callback
    loops_alive,          \* threads running _listen_loop
    \* ---- the scratch directory and PDFDocument (pdf_model.py:65-70)
    kind,                 \* what each entry of the directory is (see Kinds)
    by_mtime,             \* the entries of the directory, oldest modification first
    dir_state,            \* the directory temp_dir names: "ok", "unreadable", "missing"
    dirs_created,         \* directories mkdtemp has created in this session
    temp_files,           \* PDFDocument.temp_files: the tracked paths
    deleted_count,        \* what the latest delete or clear returned
    \* ---- the session (pdf_model.py:67, main_window.py:355-374)
    doc,                  \* PDFDocument.doc: "none", "open" or "closed"
    close_state,          \* closeEvent: "open", "asking" (its dialog is up), "closed"
    \* ---- ClipboardService on its own (clipboard_service.py:24-116)
    pasteboard,           \* the types NSPasteboard.generalPasteboard() holds
    copy_call,            \* the latest copy_image_to_clipboard: its case and result
    paste_result          \* what the latest simulate_paste returned

runner_vars == <<images_to_process, current_image_index, is_auto_processing,
                 auto_copy_timer, single_shots, clipboard, copy_log>>
env_vars == <<disk, temp_dir, provider_value>>
kbd_vars == <<chord_held, kbd_is_running, kbd_thread, press_count, callback_count,
              loops_alive>>
store_vars == <<kind, by_mtime, dir_state, dirs_created, temp_files, deleted_count>>
session_vars == <<doc, close_state>>
clip_vars == <<pasteboard, copy_call, paste_result>>
vars == <<runner_vars, command_r_queue, env_vars, kbd_vars, store_vars, session_vars,
          clip_vars>>

----------------------------------------------------------------------------
\* Bounds of the model.

\* Files the scratch directory may hold; file f sorts before g by name iff f < g.
MaxFiles == 3
\* Single-shot timers pending when a start is accepted (timers expire with
\* time, so the number of runs in a behaviour is not bounded).
MaxPending == 2
\* Queued command_r_signal emissions not yet delivered.
MaxQueue == 1
\* Chord presses and callback invocations counted in the watcher's history.
MaxPresses == 3

Files == 1..MaxFiles

\* Entries the directory may hold where kinds, modification times and the
\* tracked list are followed (SpecList, SpecStore); entry f sorts before g by
\* name iff f < g.
MaxEntries == 2
\* Directories mkdtemp may create in one session.
MaxDirs == 2
\* Length of the tracked list.
MaxTracked == 3
\* Paths handed to one call of delete_selected_files.
MaxSelected == 2

Entries == 1..MaxEntries

----------------------------------------------------------------------------
\* Program constants.

\* QTimer.singleShot(500, ClipboardService.simulate_paste)
SettleMs == 500
\* QTimer.singleShot(1000, self.stop_auto_copy_paste)
GraceMs == 1000
\* if interval < 0.5: interval = 0.5      (0.5 s in units of 0.1 ms)
MinInterval == 5000
\* elif interval > 60: interval = 60      (60 s in units of 0.1 ms)
MaxInterval == 600000
\* except (ValueError, TypeError): return 4
DefaultInterval == 40000

\* interval_getter raising ValueError or TypeError instead of returning a number
Raises == -1

\* The values interval_getter may return: 0.1 s, 4 s, 120 s, or raise.
ProviderValues == {1000, 40000, 1200000, Raises}

\* Outcomes of ClipboardService.copy_image_to_clipboard for a file that exists.
CopyOutcomes == {"ok", "undecodable", "no_appkit"}

\* A pending single-shot timer carries the cursor value it was scheduled at
\* and whether the latest accepted run ("current") or a run before it
\* ("earlier") scheduled it.  The clipboard is described by the item whose
\* image it holds: the item at cursor idx of the current run, an item an
\* earlier run copied, or nothing.  For an earlier run the cursor value is
\* dropped.
NoClip == [run |-> "none", idx |-> 0]
\* No copy_image_to_clipboard has been called.
NoCall == <<>>
StoppedTimer == [active |-> FALSE, interval |-> 0, remaining |-> 0, provided |-> 0]

Earlier(x) ==
    IF x.run = "current" THEN [x EXCEPT !.run = "earlier", !.idx = 0] ELSE x

----------------------------------------------------------------------------
\* AutoCopyService.get_temp_image_files: the files of the directory, sorted
\* by name.  SortedSeq(S) lists the set S in ascending order.
RECURSIVE SortedSeq(_)
SortedSeq(S) ==
    IF S = {} THEN <<>>
    ELSE LET m == CHOOSE x \in S : \A y \in S : x <= y
         IN  <<m>> \o SortedSeq(S \ {m})

\* What an entry of the directory is:
\*   "png"  a regular file named *.png, *.jpg, *.jpeg, *.tiff or *.bmp (any case)
\*   "gif"  a regular file named *.gif
\*   "txt"  a regular file with any other extension
\*   "dir"  a directory whose own name ends in an image extension
Kinds == {"png", "gif", "txt", "dir"}

\* image_extensions of get_temp_image_files together with its test
\* os.path.exists(full_path), which a directory passes.
RunnerKinds == {"png", "gif", "dir"}

\* The extension tuple of refresh_temp_files together with its test
\* os.path.isfile(file_path).
StoreKinds == {"png"}

\* os.listdir(temp_dir) can be used: temp_dir is set, the directory exists
\* and reading it does not raise.
Listable == temp_dir /\ dir_state = "ok"

get_temp_image_files ==
    IF ~Listable THEN <<>>
    ELSE SortedSeq({f \in disk : kind[f] \in RunnerKinds})

\* A path: the directory (numbered in order of creation) and the entry in it.
Path(d, f) == [dir |-> d, file |-> f]

\* A listing that reads an unreadable directory as if it were readable: the
\* property of C17 depends on the `except Exception` of refresh_temp_files.
ListUnguarded ==
    IF ~temp_dir \/ dir_state = "missing" THEN <<>>
    ELSE LET listed == SelectSeq(by_mtime, LAMBDA f : kind[f] \in StoreKinds)
         IN  [i \in 1..Len(listed) |-> Path(dirs_created, listed[i])]

\* What PDFDocument.refresh_temp_files assigns to temp_files: the store's
\* files of the directory, sorted by os.path.getmtime.
ListTracked ==
    IF ~Listable THEN <<>>
    ELSE LET listed == SelectSeq(by_mtime, LAMBDA f : kind[f] \in StoreKinds)
         IN  [i \in 1..Len(listed) |-> Path(dirs_created, listed[i])]

\* A get_copy_interval without the upper limit: the property of C9 depends on
\* the `elif interval > 60` branch.
NoUpperClamp(v) ==
    IF v = Raises THEN DefaultInterval
    ELSE IF v < MinInterval THEN MinInterval
    ELSE v

\* AutoCopyService.get_copy_interval, on the value v the getter returned.
get_copy_interval(v) ==
    IF v = Raises THEN DefaultInterval
    ELSE IF v < MinInterval THEN MinInterval
    ELSE IF v > MaxInterval THEN MaxInterval
    ELSE v

\* int(interval * 1000): seconds to whole milliseconds, truncating.
ToMs(interval) == interval \div 10

\* A getter whose value is read once per run and kept while the timer runs:
\* the property of C10 depends on the getter being called at every step.
StaleRead ==
    IF auto_copy_timer.active THEN auto_copy_timer.provided ELSE provider_value

\* self.interval_getter(): the value the getter returns when called now.
interval_getter == provider_value

----------------------------------------------------------------------------
\* The service's state as one record, so that a handler that calls another
\* is the composition of the two.
Cur == [images_to_process   |-> images_to_process,
        current_image_index |-> current_image_index,
        is_auto_processing  |-> is_auto_processing,
        auto_copy_timer     |-> auto_copy_timer,
        single_shots        |-> single_shots,
        clipboard           |-> clipboard,
        copy_log            |-> copy_log]

Commit(st) ==
    /\ images_to_process'   = st.images_to_process
    /\ current_image_index' = st.current_image_index
    /\ is_auto_processing'  = st.is_auto_processing
    /\ auto_copy_timer'     = st.auto_copy_timer
    /\ single_shots'        = st.single_shots
    /\ clipboard'           = st.clipboard
    /\ copy_log'            = st.copy_log

\* A stop that clears the flag and leaves the timer running: the property of
\* C33 depends on `self.auto_copy_timer.stop()`.
StopFlagOnly(st) ==
    IF ~st.is_auto_processing THEN st
    ELSE [st EXCEPT !.is_auto_processing = FALSE]

\* A stop that stops the timer and leaves the flag set: the property of C3
\* depends on `self.is_auto_processing = False`.
StopTimerOnly(st) ==
    IF ~st.is_auto_processing THEN st
    ELSE [st EXCEPT !.auto_copy_timer = StoppedTimer]

\* AutoCopyService.stop_auto_copy_paste
StopService(st) ==
    IF ~st.is_auto_processing THEN st
    ELSE [st EXCEPT !.auto_copy_timer = StoppedTimer,
                    !.is_auto_processing = FALSE]

\* ClipboardService.copy_image_to_clipboard(file): the result for a file,
\* given the outcome the platform produces when the file exists.
CopyResult(file, outcome) == IF file \in disk THEN outcome ELSE "missing"

\* The clipboard after copy_image_to_clipboard: set on success, cleared by
\* pb.clearContents() when the image cannot be loaded, untouched when the
\* call returns before reaching the pasteboard.
ClipAfterCopy(st, res) ==
    CASE res = "ok"          -> [run |-> "current", idx |-> st.current_image_index]
      [] res = "undecodable" -> NoClip
      [] OTHER               -> st.clipboard

\* QTimer.singleShot(ms, slot), scheduled while the cursor is at idx.
SingleShot(slot, ms, idx) ==
    SetToBag({[slot |-> slot, remaining |-> ms, run |-> "current", idx |-> idx]})

\* A paste scheduled whatever the copy returned: the property of C12 depends
\* on the `if` around QTimer.singleShot(500, ...).
PasteRegardless(shots, res, idx) ==
    shots (+) SingleShot("paste", SettleMs, idx)

\* `if ClipboardService.copy_image_to_clipboard(current_image):
\*      QTimer.singleShot(500, ClipboardService.simulate_paste)`
\* The pending single-shot timers after the copy returned res.
AfterCopy(shots, res, idx) ==
    IF res = "ok" THEN shots (+) SingleShot("paste", SettleMs, idx) ELSE shots

\* AutoCopyService.process_next_image, with copy outcome `outcome`.
ProcessNext(st, outcome) ==
    IF ~st.is_auto_processing
          \/ st.current_image_index >= Len(st.images_to_process)
    THEN StopService(st)
    ELSE LET idx   == st.current_image_index
             read  == interval_getter
             file  == st.images_to_process[idx + 1]
             res   == CopyResult(file, outcome)
             shots == AfterCopy(st.single_shots, res, idx)
             more  == idx + 1 < Len(st.images_to_process)
         IN  [st EXCEPT
                !.clipboard = ClipAfterCopy(st, res),
                !.copy_log = Append(st.copy_log, idx),
                !.current_image_index = idx + 1,
                !.auto_copy_timer =
                    IF more
                    THEN [active    |-> TRUE,
                          interval  |-> ToMs(get_copy_interval(read)),
                          remaining |-> ToMs(get_copy_interval(read)),
                          provided  |-> read]
                    ELSE st.auto_copy_timer,
                !.single_shots =
                    IF more THEN shots
                    ELSE shots (+) SingleShot("stop", GraceMs, idx + 1)]

----------------------------------------------------------------------------
Init ==
    /\ images_to_process = <<>>
    /\ current_image_index = 0
    /\ is_auto_processing = FALSE
    /\ auto_copy_timer = StoppedTimer
    /\ single_shots = EmptyBag
    /\ command_r_queue = 0
    /\ disk = {}
    /\ temp_dir \in BOOLEAN
    /\ provider_value = DefaultInterval
    /\ clipboard = NoClip
    /\ copy_log = <<>>
    /\ chord_held = FALSE
    /\ kbd_is_running = FALSE
    /\ kbd_thread = "none"
    /\ press_count = 0
    /\ callback_count = 0
    /\ loops_alive = 0
    /\ kind = [f \in Files |-> "png"]
    /\ by_mtime = <<>>
    /\ dir_state = "ok"
    /\ dirs_created = IF temp_dir THEN 1 ELSE 0
    /\ temp_files = <<>>
    /\ deleted_count = 0
    /\ doc = "none"
    /\ close_state = "open"
    /\ pasteboard = {}
    /\ copy_call = NoCall
    /\ paste_result = "none"

----------------------------------------------------------------------------
\* MainWindow.on_global_shortcut: the watcher's callback emits command_r_signal;
\* the emission is queued for the main thread.
on_global_shortcut ==
    /\ command_r_queue < MaxQueue
    /\ command_r_queue' = command_r_queue + 1
    /\ UNCHANGED <<runner_vars, env_vars, kbd_vars, store_vars, session_vars, clip_vars>>

\* A start without the busy guard: the property of C2 depends on the guard.
NeverRejected == FALSE

\* `if self.is_auto_processing: return` at the head of start_auto_copy_paste.
StartRejected == is_auto_processing

\* A start without the emptiness check: the property of C13 depends on it.
NeverEmpty == FALSE

\* `if not self.images_to_process: return` in start_auto_copy_paste.
StartEmpty == get_temp_image_files = <<>>

\* A start that scans the directory only when it holds no list from a run
\* before: the property of C29 depends on the scan inside every start.
BeginRunCached(st, listing) ==
    [st EXCEPT !.images_to_process = IF st.images_to_process # <<>>
                                     THEN st.images_to_process
                                     ELSE listing,
               !.current_image_index = 0,
               !.is_auto_processing = TRUE,
               !.single_shots = BagOfAll(Earlier, st.single_shots),
               !.clipboard = Earlier(st.clipboard),
               !.copy_log = <<>>]

\* A start that takes the snapshot and sets the flag but leaves the cursor
\* where the run before left it: the property of C11 depends on
\* `self.current_image_index = 0`.
KeepCursor(st, listing) ==
    [st EXCEPT !.images_to_process = listing,
               !.is_auto_processing = TRUE,
               !.single_shots = BagOfAll(Earlier, st.single_shots),
               !.clipboard = Earlier(st.clipboard),
               !.copy_log = <<>>]

\* start_auto_copy_paste up to the call of process_next_image: the snapshot,
\* the cursor at 0, the flag.  An accepted start turns what the run before it
\* left behind into history.
BeginRun(st, listing) ==
    [st EXCEPT !.images_to_process = listing,
               !.current_image_index = 0,
               !.is_auto_processing = TRUE,
               !.single_shots = BagOfAll(Earlier, st.single_shots),
               !.clipboard = Earlier(st.clipboard),
               !.copy_log = <<>>]

\* AutoCopyService.start_auto_copy_paste, the slot of command_r_signal.
start_auto_copy_paste ==
    /\ command_r_queue > 0
    /\ command_r_queue' = command_r_queue - 1
    /\ IF StartRejected
       THEN UNCHANGED runner_vars
       ELSE IF StartEmpty
       THEN /\ images_to_process' = <<>>
            /\ UNCHANGED <<current_image_index, is_auto_processing, auto_copy_timer,
                           single_shots, clipboard, copy_log>>
       ELSE /\ BagCardinality(single_shots) < MaxPending
            /\ \E outcome \in CopyOutcomes :
                 Commit(ProcessNext(BeginRun(Cur, get_temp_image_files), outcome))
    /\ UNCHANGED <<env_vars, kbd_vars, store_vars, session_vars, clip_vars>>

\* auto_copy_timer.timeout -> process_next_image.  A repeating QTimer is armed
\* again for its interval before the slot runs.
TimerTimeout ==
    /\ auto_copy_timer.active
    /\ auto_copy_timer.remaining = 0
    /\ \E outcome \in CopyOutcomes :
         Commit(ProcessNext([Cur EXCEPT !.auto_copy_timer.remaining =
                                            auto_copy_timer.interval],
                            outcome))
    /\ UNCHANGED <<command_r_queue, env_vars, kbd_vars, store_vars, session_vars, clip_vars>>

\* A due QTimer.singleShot fires: ClipboardService.simulate_paste (which
\* leaves the service alone) or AutoCopyService.stop_auto_copy_paste.
FireSingleShot(s) ==
    /\ BagIn(s, single_shots)
    /\ s.remaining = 0
    /\ LET st == [Cur EXCEPT !.single_shots = single_shots (-) SetToBag({s})]
       IN  Commit(IF s.slot = "stop" THEN StopService(st) ELSE st)
    /\ UNCHANGED <<command_r_queue, env_vars, kbd_vars, store_vars, session_vars, clip_vars>>

\* stop_auto_copy_paste called from outside the service (MainWindow.closeEvent
\* calls it when is_processing() is true).
cancel ==
    /\ is_auto_processing
    /\ Commit(StopService(Cur))
    /\ UNCHANGED <<command_r_queue, env_vars, kbd_vars, store_vars, session_vars, clip_vars>>

\* Time passes.
Pending == {s.remaining : s \in BagToSet(single_shots)}
              \cup (IF auto_copy_timer.active THEN {auto_copy_timer.remaining} ELSE {})
MinRemaining == CHOOSE m \in Pending : \A x \in Pending : m <= x

\* Time passes up to the next expiry, or by one settle delay when the next
\* expiry is further away.  While no single-shot timer is pending the model
\* goes straight to the expiry of auto_copy_timer: nothing can be scheduled
\* relative to it in between (a start is rejected while the run is active and
\* every way out of the run stops the timer).
TickSteps ==
    IF Pending = {} THEN {}
    ELSE {d \in {MinRemaining} \cup (IF single_shots = EmptyBag THEN {} ELSE {SettleMs}) :
            d > 0 /\ d <= MinRemaining}

Elapse(x, d) == [x EXCEPT !.remaining = @ - d]

Tick(d) ==
    /\ d \in TickSteps
    /\ single_shots' = BagOfAll(LAMBDA s : Elapse(s, d), single_shots)
    /\ auto_copy_timer' = IF auto_copy_timer.active
                          THEN Elapse(auto_copy_timer, d)
                          ELSE auto_copy_timer
    /\ UNCHANGED <<images_to_process, current_image_index, is_auto_processing,
                   clipboard, copy_log, command_r_queue, env_vars, kbd_vars, store_vars, session_vars,
                   clip_vars>>

\* The user edits the interval field (ControlPanel.set_interval or typing).
SetInterval(v) ==
    /\ v # provider_value
    /\ provider_value' = v
    /\ UNCHANGED <<runner_vars, command_r_queue, disk, temp_dir, kbd_vars, store_vars, session_vars,
                   clip_vars>>

\* The renderer writes an image into the scratch directory.
SaveImage(f) ==
    /\ temp_dir
    /\ f \notin disk
    /\ disk' = disk \cup {f}
    /\ UNCHANGED <<runner_vars, command_r_queue, temp_dir, provider_value, kbd_vars, store_vars, session_vars,
                   clip_vars>>

\* A deletion that also drops the file from the runner's list, as if the
\* runner iterated over a list shared with the store: the property of C14
\* depends on the snapshot being the runner's own.
DeleteFromSnapshot(f) ==
    /\ f \in disk
    /\ disk' = disk \ {f}
    /\ images_to_process' = SelectSeq(images_to_process, LAMBDA x : x # f)
    /\ UNCHANGED <<current_image_index, is_auto_processing, auto_copy_timer,
                   single_shots, clipboard, copy_log, command_r_queue, temp_dir,
                   provider_value, kbd_vars, store_vars, session_vars, clip_vars>>

\* A file of the scratch directory is deleted.
DeleteFile(f) ==
    /\ f \in disk
    /\ disk' = disk \ {f}
    /\ UNCHANGED <<runner_vars, command_r_queue, temp_dir, provider_value, kbd_vars, store_vars, session_vars,
                   clip_vars>>

Next ==
    \/ on_global_shortcut
    \/ start_auto_copy_paste
    \/ TimerTimeout
    \/ \E s \in BagToSet(single_shots) : FireSingleShot(s)
    \/ cancel
    \/ \E d \in TickSteps : Tick(d)
    \/ \E v \in ProviderValues : SetInterval(v)
    \/ \E f \in Files : SaveImage(f)
    \/ \E f \in Files : DeleteFile(f)

Spec == Init /\ [][Next]_vars

\* The application while its window stays open: closeEvent is the only caller
\* of stop_auto_copy_paste outside the service, so no external cancel occurs.
NextRunning ==
    \/ on_global_shortcut
    \/ start_auto_copy_paste
    \/ TimerTimeout
    \/ \E s \in BagToSet(single_shots) : FireSingleShot(s)
    \/ \E d \in TickSteps : Tick(d)
    \/ \E v \in ProviderValues : SetInterval(v)
    \/ \E f \in Files : SaveImage(f)
    \/ \E f \in Files : DeleteFile(f)

SpecRunning == Init /\ [][NextRunning]_vars

\* A step of the event loop's timers: time passes up to the next expiry, or
\* the slot of a timer that is due runs.
TimerStep ==
    \/ \E d \in TickSteps : Tick(d)
    \/ TimerTimeout
    \/ \E s \in BagToSet(single_shots) : FireSingleShot(s)

\* Armed timers eventually fire: while a timer is armed the event loop does
\* not stand still.
TimersFire == WF_vars(TimerStep)

\* The provider values on either side of the range get_copy_interval clamps
\* to: 0.1 s is raised to 0.5 s and 120 s is lowered to 60 s.
EdgeValues == {1000, 1200000}

\* The runner with its timers firing.  The interval starts at the default 4 s
\* and the user moves it to either end of the range, during a run or between
\* runs.
NextLive ==
    \/ on_global_shortcut
    \/ start_auto_copy_paste
    \/ TimerTimeout
    \/ \E s \in BagToSet(single_shots) : FireSingleShot(s)
    \/ cancel
    \/ \E d \in TickSteps : Tick(d)
    \/ \E v \in EdgeValues : SetInterval(v)
    \/ \E f \in Files : SaveImage(f)

SpecLive == Init /\ [][NextLive]_vars /\ TimersFire

----------------------------------------------------------------------------
\* The hotkey watcher (KeyboardService) and its polling thread.
\* kbd_thread is the thread's position in _listen_loop:
\*   "none"  no thread was started        "test"  at `while self.is_running`
\*   "poll"  about to call get_key_state  "sleep" in time.sleep(0.1)
\*   "done"  the loop has ended          "raised" an exception has ended the thread

\* The user presses the chord (Option and Command both down) or lets it go.
PressChord ==
    /\ ~chord_held
    /\ press_count < MaxPresses
    /\ chord_held' = TRUE
    /\ press_count' = press_count + 1
    /\ UNCHANGED <<loops_alive, kbd_is_running, kbd_thread, callback_count, command_r_queue,
                   runner_vars, env_vars, store_vars, session_vars, clip_vars>>

ReleaseChord ==
    /\ chord_held
    /\ chord_held' = FALSE
    /\ UNCHANGED <<loops_alive, kbd_is_running, kbd_thread, press_count, callback_count,
                   command_r_queue, runner_vars, env_vars, store_vars, session_vars, clip_vars>>

\* The positions of a thread that is not in the loop.
Ended == {"none", "done", "raised"}

\* A start_listening without its test of is_running: the property of C24
\* depends on the `if self.is_running: return`.
NeverListening == FALSE

\* `if self.is_running` in start_listening
AlreadyListening == kbd_is_running

\* KeyboardService.start_listening.  stop_listening has joined the thread of
\* an earlier start (the loop tests the flag every 0.1 s, the join waits 1 s),
\* so a start that follows a stop finds no live thread.
start_listening ==
    /\ kbd_is_running \/ kbd_thread \in Ended
    /\ IF AlreadyListening
       THEN UNCHANGED <<kbd_is_running, kbd_thread, loops_alive>>
       ELSE /\ kbd_is_running' = TRUE
            /\ kbd_thread' = "test"
            /\ loops_alive' = loops_alive + 1
    /\ UNCHANGED <<chord_held, press_count, callback_count, command_r_queue,
                   runner_vars, env_vars, store_vars, session_vars, clip_vars>>

\* KeyboardService.stop_listening
stop_listening ==
    /\ kbd_is_running' = FALSE
    /\ UNCHANGED <<loops_alive, kbd_thread, chord_held, press_count, callback_count,
                   command_r_queue, runner_vars, env_vars, store_vars, session_vars, clip_vars>>

\* A loop that goes on whatever the flag says: the property of C25 depends
\* on the test of `while self.is_running`.
LoopIgnoresFlag ==
    /\ kbd_thread = "test"
    /\ kbd_thread' = "poll"
    /\ UNCHANGED <<loops_alive, kbd_is_running, chord_held, press_count, callback_count,
                   command_r_queue, runner_vars, env_vars, store_vars, session_vars, clip_vars>>

\* _listen_loop: `while self.is_running`
LoopTest ==
    /\ kbd_thread = "test"
    /\ IF kbd_is_running
       THEN kbd_thread' = "poll" /\ UNCHANGED loops_alive
       ELSE kbd_thread' = "done" /\ loops_alive' = loops_alive - 1
    /\ UNCHANGED <<kbd_is_running, chord_held, press_count, callback_count,
                   command_r_queue, runner_vars, env_vars, store_vars, session_vars, clip_vars>>

\* KeyboardService.get_key_state, called by the loop: when both modifier
\* flags are set it calls the callback, MainWindow.on_global_shortcut, which
\* emits command_r_signal.
get_key_state ==
    /\ kbd_thread = "poll"
    /\ IF chord_held
       THEN /\ callback_count < MaxPresses
            /\ command_r_queue < MaxQueue
            /\ callback_count' = callback_count + 1
            /\ command_r_queue' = command_r_queue + 1
       ELSE UNCHANGED <<callback_count, command_r_queue>>
    /\ kbd_thread' = "sleep"
    /\ UNCHANGED <<loops_alive, kbd_is_running, chord_held, press_count, runner_vars,
                   env_vars, store_vars, session_vars, clip_vars>>

\* time.sleep(0.1) returns.
LoopWake ==
    /\ kbd_thread = "sleep"
    /\ kbd_thread' = "test"
    /\ UNCHANGED <<loops_alive, kbd_is_running, chord_held, press_count, callback_count,
                   command_r_queue, runner_vars, env_vars, store_vars, session_vars, clip_vars>>

\* The watcher with the main thread delivering the queued signal.
NextKbd ==
    \/ PressChord
    \/ ReleaseChord
    \/ start_listening
    \/ stop_listening
    \/ LoopTest
    \/ get_key_state
    \/ LoopWake
    \/ start_auto_copy_paste

SpecKbd == Init /\ [][NextKbd]_vars

\* Quartz.CGEventSourceFlagsState raises in get_key_state: neither
\* get_key_state nor _listen_loop has a handler, so the exception ends the
\* thread; is_running is left as it is.
KeyStateRaises ==
    /\ kbd_thread = "poll"
    /\ kbd_thread' = "raised"
    /\ loops_alive' = loops_alive - 1
    /\ UNCHANGED <<kbd_is_running, chord_held, press_count, callback_count,
                   command_r_queue, runner_vars, env_vars, store_vars, session_vars, clip_vars>>

\* The watcher where reading the key state can fail.
NextKbdFaults ==
    \/ NextKbd
    \/ KeyStateRaises

SpecKbdFaults == Init /\ [][NextKbdFaults]_vars

----------------------------------------------------------------------------
\* The scratch directory and its two listings (SpecList).  The entries of the
\* directory are Entries; each has a kind and a place in the order of
\* modification times.

\* The elements of a sequence.
Range(seq) == {seq[i] : i \in 1..Len(seq)}

\* A sequence without the element x.
Without(seq, x) == SelectSeq(seq, LAMBDA y : y # x)

\* An entry is written into the directory (by the renderer, or by anything
\* else: MainWindow.open_temp_folder shows the directory to the user): it is
\* created with kind k, or an existing file is written again.  Its
\* modification time becomes the latest.
WriteEntry(f, k) ==
    /\ Listable
    /\ f \notin disk \/ (kind[f] = k /\ k # "dir")
    /\ disk' = disk \cup {f}
    /\ kind' = [kind EXCEPT ![f] = k]
    /\ by_mtime' = Append(Without(by_mtime, f), f)
    /\ UNCHANGED <<temp_dir, provider_value, dir_state, dirs_created, temp_files,
                   deleted_count, runner_vars, command_r_queue, kbd_vars, session_vars,
                   clip_vars>>

\* An entry is removed from the directory by something other than the store.
RemoveEntry(f) ==
    /\ dir_state # "missing"
    /\ f \in disk
    /\ disk' = disk \ {f}
    /\ kind' = [kind EXCEPT ![f] = "png"]
    /\ by_mtime' = Without(by_mtime, f)
    /\ UNCHANGED <<temp_dir, provider_value, dir_state, dirs_created, temp_files,
                   deleted_count, runner_vars, command_r_queue, kbd_vars, session_vars,
                   clip_vars>>

\* The directory is made unreadable or readable again (os.listdir raises
\* while it is unreadable), or is removed with all it holds.
SetDirState(s) ==
    /\ dirs_created >= 1
    /\ dir_state # "missing"
    /\ s # dir_state
    /\ dir_state' = s
    /\ IF s = "missing"
       THEN /\ disk' = {}
            /\ kind' = [f \in Files |-> "png"]
            /\ by_mtime' = <<>>
       ELSE UNCHANGED <<disk, kind, by_mtime>>
    /\ UNCHANGED <<temp_dir, provider_value, dirs_created, temp_files,
                   deleted_count, runner_vars, command_r_queue, kbd_vars, session_vars,
                   clip_vars>>

\* PDFDocument.refresh_temp_files
refresh_temp_files ==
    /\ temp_files' = ListTracked
    /\ UNCHANGED <<kind, by_mtime, dir_state, dirs_created, deleted_count,
                   env_vars, runner_vars, command_r_queue, kbd_vars, session_vars, clip_vars>>

\* PDFDocument.create_temp_directory: tempfile.mkdtemp makes a new, empty
\* directory and temp_dir names it; when mkdtemp raises, temp_dir is None.
\* What an earlier directory holds stays where it is, out of temp_dir's reach.
create_temp_directory ==
    /\ dirs_created < MaxDirs
    /\ \/ /\ temp_dir' = TRUE
          /\ dirs_created' = dirs_created + 1
          /\ dir_state' = "ok"
          /\ disk' = {}
          /\ kind' = [f \in Files |-> "png"]
          /\ by_mtime' = <<>>
       \/ /\ temp_dir' = FALSE
          /\ UNCHANGED <<dirs_created, dir_state, disk, kind, by_mtime>>
    /\ UNCHANGED <<provider_value, temp_files, deleted_count, runner_vars,
                   command_r_queue, kbd_vars, session_vars, clip_vars>>

\* The directory, the two listings of it, and the start that snapshots one.
NextList ==
    \/ \E f \in Entries, k \in Kinds : WriteEntry(f, k)
    \/ \E f \in Entries : RemoveEntry(f)
    \/ \E s \in {"ok", "unreadable", "missing"} : SetDirState(s)
    \/ refresh_temp_files
    \/ on_global_shortcut
    \/ start_auto_copy_paste

SpecList == Init /\ [][NextList]_vars

\* The directory's life: created, filled, listed, created again.
NextDirs ==
    \/ \E f \in Entries, k \in Kinds : WriteEntry(f, k)
    \/ \E f \in Entries : RemoveEntry(f)
    \/ refresh_temp_files
    \/ create_temp_directory

SpecDirs == Init /\ [][NextDirs]_vars

----------------------------------------------------------------------------
\* The store's tracked list and its deletions (SpecStore).

\* The paths the current directory can hold.
AllPaths == {Path(dirs_created, f) : f \in Entries}

\* os.path.exists(file_path)
Exists(p, on_disk) ==
    /\ temp_dir
    /\ dir_state # "missing"
    /\ p.dir = dirs_created
    /\ p.file \in on_disk

\* list.remove(x): the list without the first occurrence of x.
RemoveFirst(seq, x) ==
    LET i == CHOOSE k \in 1..Len(seq) :
                 seq[k] = x /\ \A j \in 1..(k - 1) : seq[j] # x
    IN  SubSeq(seq, 1, i - 1) \o SubSeq(seq, i + 1, Len(seq))

\* The sequences over S of length lo..hi.
SeqsOf(S, lo, hi) == UNION {[1..n -> S] : n \in lo..hi}

\* The body of the loop of PDFDocument.delete_selected_files for file_path p,
\* on st = [disk, temp_files, count]; os.remove raises for the paths of
\* failing, and the except clause skips the rest of the body.
DeleteStep(st, p, failing) ==
    LET there == Exists(p, st.disk)
    IN  IF there /\ p \in failing THEN st
        ELSE LET removed == IF there
                            THEN [st EXCEPT !.disk = st.disk \ {p.file},
                                            !.count = st.count + 1]
                            ELSE st
             IN  IF \E i \in 1..Len(removed.temp_files) : removed.temp_files[i] = p
                 THEN [removed EXCEPT !.temp_files = RemoveFirst(removed.temp_files, p)]
                 ELSE removed

\* A loop body for clear_temp_files that counts a file already gone as
\* deleted: the property of C19 depends on both loops counting alike.
ClearStepCountsGone(st, p, failing) ==
    LET there == Exists(p, st.disk)
    IN  IF there /\ p \in failing THEN st
        ELSE LET removed == [st EXCEPT !.disk = st.disk \ {p.file},
                                       !.count = st.count + 1]
             IN  IF \E i \in 1..Len(removed.temp_files) : removed.temp_files[i] = p
                 THEN [removed EXCEPT !.temp_files = RemoveFirst(removed.temp_files, p)]
                 ELSE removed

\* The body of the loop of PDFDocument.clear_temp_files for file_path p:
\* self.temp_files.remove(file_path) is not guarded, and raises ValueError,
\* which the except clause catches, when p is not in the list.
ClearStep(st, p, failing) ==
    LET there == Exists(p, st.disk)
    IN  IF there /\ p \in failing THEN st
        ELSE LET removed == IF there
                            THEN [st EXCEPT !.disk = st.disk \ {p.file},
                                            !.count = st.count + 1]
                            ELSE st
             IN  IF \E i \in 1..Len(removed.temp_files) : removed.temp_files[i] = p
                 THEN [removed EXCEPT !.temp_files = RemoveFirst(removed.temp_files, p)]
                 ELSE removed

RECURSIVE DeleteLoop(_, _, _)
\* for file_path in selected_files: ...
DeleteLoop(st, selected_files, failing) ==
    IF selected_files = <<>> THEN st
    ELSE DeleteLoop(DeleteStep(st, Head(selected_files), failing),
                    Tail(selected_files), failing)

RECURSIVE ClearLoop(_, _, _)
\* for file_path in self.temp_files[:]: ...
ClearLoop(st, copy, failing) ==
    IF copy = <<>> THEN st
    ELSE ClearLoop(ClearStep(st, Head(copy), failing), Tail(copy), failing)

\* The store as the two loops find it, deleted_count = 0.
CurStore == [disk |-> disk, temp_files |-> temp_files, count |-> 0]

\* PDFDocument.delete_selected_files(selected_files)
DeleteSelected(selected_files, failing) == DeleteLoop(CurStore, selected_files, failing)

\* PDFDocument.clear_temp_files()
ClearAll(failing) == ClearLoop(CurStore, temp_files, failing)

\* The store takes the outcome st of a loop; a file removed from the
\* directory leaves the order of modification times.
CommitStore(st) ==
    /\ disk' = st.disk
    /\ by_mtime' = SelectSeq(by_mtime, LAMBDA f : f \in st.disk)
    /\ temp_files' = st.temp_files
    /\ deleted_count' = st.count
    /\ UNCHANGED <<kind, dir_state, dirs_created, temp_dir, provider_value,
                   runner_vars, command_r_queue, kbd_vars, session_vars, clip_vars>>

\* MainWindow.delete_selected_files, confirmed with Yes.
delete_selected_files(selected_files, failing) ==
    /\ selected_files # <<>>
    /\ CommitStore(DeleteSelected(selected_files, failing))

\* MainWindow.clear_temp_files, confirmed with Yes.
clear_temp_files(failing) ==
    /\ temp_files # <<>>
    /\ CommitStore(ClearAll(failing))

\* PDFDocument.load_document: a document that is held is closed, and the
\* chosen one is opened.
load_document ==
    /\ doc' = "open"
    /\ UNCHANGED <<close_state, runner_vars, command_r_queue, env_vars, kbd_vars,
                   store_vars, clip_vars>>

RECURSIVE SaveLoop(_, _, _)
\* The loop of MainWindow.save_selected_pages_as_images over the sorted
\* selected pages, on st = [disk, by_mtime, temp_files]: pdf_page_to_image
\* writes the page's file for the pages of ok and returns None for the others.
SaveLoop(st, pages, ok) ==
    IF pages = <<>> THEN st
    ELSE LET f == Head(pages)
         IN  SaveLoop(IF f \in ok
                      THEN [disk |-> st.disk \cup {f},
                            by_mtime |-> Append(Without(st.by_mtime, f), f),
                            temp_files |-> Append(st.temp_files, Path(dirs_created, f))]
                      ELSE st,
                      Tail(pages), ok)

\* MainWindow.save_selected_pages_as_images: selected_pages is not empty, the
\* document is loaded and temp_dir is set.  A page saved again within the
\* same second is written to the same path, which is appended once more.
save_selected_pages_as_images(selected_pages, ok) ==
    /\ selected_pages # {}
    /\ doc = "open"
    /\ temp_dir
    /\ Listable \/ ok = {}
    /\ \A f \in ok : f \in disk => kind[f] = "png"
    /\ Len(temp_files) + Cardinality(ok) <= MaxTracked
    /\ LET st == SaveLoop([disk |-> disk, by_mtime |-> by_mtime,
                           temp_files |-> temp_files],
                          SortedSeq(selected_pages), ok)
       IN  /\ disk' = st.disk
           /\ by_mtime' = st.by_mtime
           /\ temp_files' = st.temp_files
    /\ UNCHANGED <<kind, dir_state, dirs_created, deleted_count, temp_dir,
                   provider_value, runner_vars, command_r_queue, kbd_vars, session_vars,
                   clip_vars>>

\* The tracked list, files coming and going, and the two deletions.
NextStore ==
    \/ \E selected_pages \in SUBSET Entries, ok \in SUBSET Entries :
           ok \subseteq selected_pages /\ save_selected_pages_as_images(selected_pages, ok)
    \/ \E f \in Entries : RemoveEntry(f)
    \/ load_document
    \/ \E failing \in SUBSET AllPaths : clear_temp_files(failing)
    \/ \E selected_files \in SeqsOf(AllPaths, 1, MaxSelected), failing \in SUBSET AllPaths :
           delete_selected_files(selected_files, failing)

SpecStore == Init /\ [][NextStore]_vars

----------------------------------------------------------------------------
\* The session: the document, and closeEvent with its dialog (SpecSession).

\* An rmdir tried before the tracked files are deleted: the property of C21
\* depends on cleanup removing the files first.
RmdirBeforeFiles(before, after, denied) ==
    IF temp_dir /\ dir_state # "missing" /\ before = {} /\ ~denied
    THEN "missing" ELSE dir_state

\* The end of PDFDocument.cleanup: os.rmdir(self.temp_dir) when temp_dir is
\* set and exists; rmdir raises when the directory is not empty or when it is
\* denied, and the except clause prints a warning.
RmdirAfterFiles(before, after, denied) ==
    IF temp_dir /\ dir_state # "missing" /\ after = {} /\ ~denied
    THEN "missing" ELSE dir_state

\* The files the loop of PDFDocument.cleanup leaves in the directory:
\* os.remove for every tracked path that exists; a failing os.remove is
\* passed over.
CleanupFiles(failing) ==
    disk \ {p.file : p \in {q \in Range(temp_files) : Exists(q, disk) /\ q \notin failing}}

\* PDFDocument.cleanup
cleanup(failing, denied) ==
    /\ doc' = IF doc = "open" THEN "closed" ELSE doc
    /\ disk' = CleanupFiles(failing)
    /\ by_mtime' = SelectSeq(by_mtime, LAMBDA f : f \in CleanupFiles(failing))
    /\ dir_state' = RmdirAfterFiles(disk, CleanupFiles(failing), denied)
    /\ UNCHANGED <<kind, dirs_created, temp_files, deleted_count, temp_dir,
                   provider_value>>

\* MainWindow.closeEvent up to its dialog: the runner and the watcher are
\* stopped; when files are tracked QMessageBox.question opens, and its event
\* loop runs until the user answers; otherwise the event is accepted.
closeEvent ==
    /\ close_state = "open"
    /\ Commit(StopService(Cur))
    /\ kbd_is_running' = FALSE
    /\ close_state' = IF temp_files # <<>> THEN "asking" ELSE "closed"
    /\ UNCHANGED <<doc, command_r_queue, env_vars, store_vars, chord_held, kbd_thread,
                   press_count, callback_count, loops_alive, clip_vars>>

\* MainWindow.closeEvent from the answer on: cleanup() on Yes, then
\* event.accept().
closeEvent_reply(reply, failing, denied) ==
    /\ close_state = "asking"
    /\ close_state' = "closed"
    /\ IF reply = "Yes"
       THEN cleanup(failing, denied)
       ELSE UNCHANGED <<doc, env_vars, store_vars>>
    /\ UNCHANGED <<runner_vars, command_r_queue, kbd_vars, clip_vars>>

\* What the user can do in the window is possible until closeEvent runs; the
\* directory can change until the window has closed.
NextSession ==
    \/ close_state = "open" /\ load_document
    \/ /\ close_state = "open"
       /\ \E selected_pages \in SUBSET Entries, ok \in SUBSET Entries :
              ok \subseteq selected_pages /\ save_selected_pages_as_images(selected_pages, ok)
    \/ close_state = "open" /\ refresh_temp_files
    \/ close_state = "open" /\ \E failing \in SUBSET AllPaths : clear_temp_files(failing)
    \/ close_state # "closed" /\ \E f \in Entries : WriteEntry(f, "txt")
    \/ close_state # "closed" /\ \E f \in Entries : RemoveEntry(f)
    \/ closeEvent
    \/ \E reply \in {"Yes", "No"}, failing \in SUBSET AllPaths, denied \in BOOLEAN :
           closeEvent_reply(reply, failing, denied)

SpecSession == Init /\ [][NextSession]_vars

\* The hotkey from the polling thread to the runner, in a session that is
\* closed: the thread polls and emits until it has seen the cleared flag, and
\* the main thread delivers the queued signal whenever its event loop runs,
\* the event loop of closeEvent's dialog included.
NextHotkey ==
    \/ close_state # "closed" /\ PressChord
    \/ close_state # "closed" /\ ReleaseChord
    \/ close_state = "open" /\ start_listening
    \/ close_state # "closed" /\ LoopTest
    \/ close_state # "closed" /\ get_key_state
    \/ close_state # "closed" /\ LoopWake
    \/ close_state # "closed" /\ start_auto_copy_paste
    \/ close_state = "open" /\ load_document
    \/ /\ close_state = "open"
       /\ \E selected_pages \in SUBSET Entries :
              save_selected_pages_as_images(selected_pages, selected_pages)
    \/ closeEvent
    \/ \E reply \in {"Yes", "No"} : closeEvent_reply(reply, {}, FALSE)

SpecHotkey == Init /\ [][NextHotkey]_vars

----------------------------------------------------------------------------
\* ClipboardService.copy_image_to_clipboard on its own (SpecCopy).

\* What one call meets: the file is there (os.path.exists), AppKit was
\* imported, NSImage loads the file (initWithContentsOfFile_ is not None),
\* TIFFRepresentation() gives data, and the PNG conversion gives data, gives
\* nothing, or raises.
CopyCases ==
    [exists : BOOLEAN, appkit : BOOLEAN, loads : BOOLEAN, tiff : BOOLEAN,
     png : {"data", "none", "raises"}]

\* copy_image_to_clipboard(image_path) in case c with the pasteboard holding
\* pb: what it returns and what the pasteboard holds afterwards.
CopyImage(c, pb) ==
    IF ~c.exists THEN [result |-> FALSE, pasteboard |-> pb]
    ELSE IF ~c.appkit THEN [result |-> FALSE, pasteboard |-> pb]
    ELSE IF ~c.loads THEN [result |-> FALSE, pasteboard |-> {}]
    ELSE [result |-> TRUE,
          pasteboard |-> (IF c.tiff THEN {"TIFF"} ELSE {})
                             \cup (IF c.png = "data" THEN {"PNG"} ELSE {})]

\* One call of ClipboardService.copy_image_to_clipboard.
copy_image_to_clipboard(c) ==
    /\ pasteboard' = CopyImage(c, pasteboard).pasteboard
    /\ copy_call' = <<[case |-> c, result |-> CopyImage(c, pasteboard).result]>>
    /\ UNCHANGED <<paste_result, runner_vars, command_r_queue, env_vars, kbd_vars,
                   store_vars, session_vars>>

NextCopy == \E c \in CopyCases : copy_image_to_clipboard(c)

SpecCopy == Init /\ [][NextCopy]_vars

----------------------------------------------------------------------------
\* ClipboardService.simulate_paste, run by the single shot that
\* process_next_image arms after a successful copy (SpecPaste).

\* How the osascript child process ends: exit code 0, another exit code,
\* subprocess.TimeoutExpired after timeout=5, or any other exception
\* (osascript missing, for one).
PasteOutcomes == {"exit_0", "exit_nonzero", "timeout", "exception"}

\* A paste that takes any exit of the child for success: the property of C28
\* depends on the test of the return code.
ReturnsTrueOnExit(outcome) == outcome \in {"exit_0", "exit_nonzero"}

\* The value simulate_paste returns.
simulate_paste(outcome) == outcome = "exit_0"

\* The paste single shot fires: simulate_paste runs on the main thread, the
\* event loop drops what it returns, and the service is left alone.
simulate_paste_fires(s, outcome) ==
    /\ BagIn(s, single_shots)
    /\ s.slot = "paste"
    /\ s.remaining = 0
    /\ Commit([Cur EXCEPT !.single_shots = single_shots (-) SetToBag({s})])
    /\ paste_result' = IF simulate_paste(outcome) THEN "ok" ELSE "failed"
    /\ UNCHANGED <<pasteboard, copy_call, command_r_queue, env_vars, kbd_vars,
                   store_vars, session_vars>>

NextPaste ==
    \/ on_global_shortcut
    \/ start_auto_copy_paste
    \/ TimerTimeout
    \/ \E s \in BagToSet(single_shots) : s.slot = "stop" /\ FireSingleShot(s)
    \/ \E s \in BagToSet(single_shots), outcome \in PasteOutcomes :
           simulate_paste_fires(s, outcome)
    \/ \E d \in TickSteps : Tick(d)
    \/ \E f \in Files : SaveImage(f)

SpecPaste == Init /\ [][NextPaste]_vars

----------------------------------------------------------------------------
\* Steps of the batch runner, as seen on a pair of states.

\* A run begins: only an accepted start sets the flag.
RunBegins == ~is_auto_processing /\ is_auto_processing'
\* A run ends: Processing -> Idle.
RunEnds == is_auto_processing /\ ~is_auto_processing'
\* A queued command_r_signal is delivered to start_auto_copy_paste.
StartDelivered == command_r_queue' = command_r_queue - 1
\* process_next_image performs a clipboard write inside a run already begun.
NextItemProcessed ==
    is_auto_processing /\ current_image_index' = current_image_index + 1

CurrentShots(slot) ==
    {s \in BagToSet(single_shots) : s.slot = slot /\ s.run = "current"}

\* The cursor values 0, 1, ..., n-1 in order.
UpTo(n) == [i \in 1..n |-> i - 1]

----------------------------------------------------------------------------
\* C1.  Once a start is accepted on a snapshot of N items, the clipboard write
\* is performed exactly once per item, in snapshot order 0..N-1, before the
\* runner returns to Idle, unless cancel() is called on that run, whatever
\* runs and hotkey triggers came before.
\* Stated on the step that ends a run, in SpecRunning, where nothing outside
\* the service calls stop_auto_copy_paste: the writes of the run that ends are
\* exactly 0, 1, ..., N-1.
C1_AllItemsOnceInOrder ==
    [][RunEnds => copy_log = UpTo(Len(images_to_process))]_vars

\* C2.  A start request made while the runner is Processing is a no-op: it
\* leaves the snapshot, the cursor, the running flag and the pending timers
\* unchanged; and it is neither queued nor merged: a run begins only in the
\* step that delivers a start request, never when another run ends.
C2_RejectedStartIsNoOp ==
    [][/\ (is_auto_processing /\ StartDelivered) => UNCHANGED runner_vars
       /\ RunBegins => StartDelivered
       /\ RunEnds => ~is_auto_processing' /\ command_r_queue' = command_r_queue]_vars

\* A start request is delivered in the middle of a run (items processed, the
\* timer armed for the next one) and is rejected.
C2_StartArrivesMidRun ==
    /\ is_auto_processing
    /\ current_image_index >= 1
    /\ auto_copy_timer.active
    /\ auto_copy_timer.remaining < auto_copy_timer.interval
    /\ ENABLED (StartRejected /\ start_auto_copy_paste)

\* C3.  cancel() after K of the N items leaves the runner Idle, and no
\* clipboard write for the remaining items of that run occurs afterwards:
\* while the runner is Idle the record of clipboard writes, the clipboard and
\* the cursor change only in a step that begins a new run.
C3_CancelStopsWrites ==
    [][/\ cancel => ~is_auto_processing'
       /\ (~is_auto_processing /\ ~RunBegins)
              => UNCHANGED <<copy_log, clipboard, current_image_index>>]_vars

\* The runner is Idle with K items of N processed, 0 < K < N, no timer of the
\* run left to fire, and time has passed since.
C3_StoppedPartWay ==
    /\ ~is_auto_processing
    /\ current_image_index >= 1
    /\ current_image_index < Len(images_to_process)
    /\ copy_log = UpTo(current_image_index)
    /\ single_shots = EmptyBag

\* C4.  After cancel() returns no step the cancelled run had scheduled runs
\* any more: every pending timer of the run is actively cancelled.
\* Stated on the cancel step: after it the repeating timer is stopped and no
\* single-shot timer of the cancelled run (settle-delayed paste, grace-delayed
\* stop) is left pending.
C4_CancelLeavesNothingPending ==
    [][cancel => (/\ ~auto_copy_timer'.active
                 /\ \A s \in BagToSet(single_shots') : s.run # "current")]_vars

\* C5.  A run goes from Processing to Idle only because its own cursor reached
\* the end of its own snapshot or because cancel() was called from outside
\* during that run.  Stated in SpecRunning, where no call from outside occurs:
\* a run ends only with its cursor at the end of its snapshot.
C5_RunEndsAtEndOrByCancel ==
    [][RunEnds => current_image_index >= Len(images_to_process)]_vars

\* C6.  The watcher invokes the callback exactly once per chord press, on the
\* transition from not-held to held, not on each poll tick while the chord
\* stays held: the callback has never been invoked more often than the chord
\* has been pressed.
C6_CallbackOncePerPress == callback_count <= press_count

\* C7.  Within a run the paste of an item is issued before the clipboard write
\* of the next item, so it is delivered while the clipboard still holds the
\* item it was scheduled for.
\* Stated on the states of an active run: while the paste of the item at
\* cursor idx is pending, the clipboard holds that item.
C7_PasteSeesItsOwnItem ==
    is_auto_processing =>
        \A s \in CurrentShots("paste") : clipboard = [run |-> "current", idx |-> s.idx]

\* The step fires the grace-delay timer the current run scheduled.
OwnGraceFires ==
    \E s \in CurrentShots("stop") :
        s.remaining = 0 /\ single_shots' = single_shots (-) SetToBag({s})

\* C8.  After the last item the runner goes Idle only after the grace delay
\* has elapsed; it stays Processing for the whole grace delay.
\* Stated on the step that ends a run whose cursor is at the end, in
\* SpecRunning: the step is the firing of the run's own grace timer.
C8_IdleOnlyAfterGrace ==
    [][(RunEnds /\ current_image_index >= Len(images_to_process))
          => OwnGraceFires]_vars

\* clamp(v, lo, hi), as the specification words it.
Clamp(v, lo, hi) == IF v < lo THEN lo ELSE IF v > hi THEN hi ELSE v

\* C9.  Every inter-item delay the runner schedules is the provider's value
\* clamped to [0.5, 60] seconds: 0.1 yields 0.5, 120 yields 60, 4 is used
\* unchanged, and the armed timer is always within [500, 60000] ms.
\* Stated on the armed timer, which records the value the getter returned
\* (intervals in units of 0.1 ms, the timer in ms).
C9_ArmedDelayIsClamped ==
    auto_copy_timer.active =>
        /\ auto_copy_timer.interval >= 500
        /\ auto_copy_timer.interval <= 60000
        /\ auto_copy_timer.provided # Raises =>
              auto_copy_timer.interval * 10 = Clamp(auto_copy_timer.provided, 5000, 600000)
        /\ auto_copy_timer.provided = 1000 => auto_copy_timer.interval = 500
        /\ auto_copy_timer.provided = 1200000 => auto_copy_timer.interval = 60000
        /\ auto_copy_timer.provided = 40000 => auto_copy_timer.interval = 4000

\* The timer is armed on a provider value of 120 s, and has been running.
C9_ArmedAboveRange ==
    /\ is_auto_processing
    /\ auto_copy_timer.active
    /\ auto_copy_timer.provided = 1200000
    /\ auto_copy_timer.interval = 60000
    /\ auto_copy_timer.remaining < auto_copy_timer.interval

\* The step processes an item and arms the timer for the next one.
Arms ==
    /\ RunBegins \/ NextItemProcessed
    /\ current_image_index' < Len(images_to_process')

\* C10.  The delay provider is read anew at every step: the gap before the
\* next item uses the value the provider has when the gap is scheduled, and a
\* timer already armed keeps the value read when it was armed.
\* Stated on steps: a step that arms the timer arms it, for its full length,
\* on the provider's value of that moment; a step that changes the provider's
\* value leaves the armed timer as it is.
C10_DelayReadAtEveryStep ==
    [][/\ Arms => /\ auto_copy_timer'.active
                  /\ auto_copy_timer'.provided = provider_value
                  /\ auto_copy_timer'.interval = ToMs(get_copy_interval(provider_value))
                  /\ auto_copy_timer'.remaining = auto_copy_timer'.interval
       /\ provider_value' # provider_value => auto_copy_timer' = auto_copy_timer]_vars

\* In a run of three items the timer is armed for the second gap on 0.1 s,
\* and the interval has been changed to 120 s since: the armed timer keeps
\* 500 ms.
C10_ChangedMidRun ==
    /\ is_auto_processing
    /\ Len(images_to_process) = 3
    /\ current_image_index = 2
    /\ auto_copy_timer.active
    /\ auto_copy_timer.provided = 1000
    /\ auto_copy_timer.interval = 500
    /\ provider_value = 1200000

----------------------------------------------------------------------------
\* C11.  When a start is accepted the cursor is reset to 0 and item 0 has its
\* clipboard write performed inside the start call, with no delay; the
\* configured delay is applied only to the gaps between consecutive items.
\* Stated on steps: the step that begins a run is the delivery of the start
\* request, takes the listing as snapshot, performs the write of item 0 and
\* leaves the cursor at 1, arming the timer only if a second item exists;
\* every later write of the run happens in a step in which the timer is due.
C11_FirstItemInsideStart ==
    [][/\ RunBegins =>
            /\ StartDelivered
            /\ images_to_process' = get_temp_image_files
            /\ copy_log' = <<0>>
            /\ current_image_index' = 1
            /\ auto_copy_timer'.active <=> Len(images_to_process') > 1
       /\ NextItemProcessed =>
            /\ auto_copy_timer.active
            /\ auto_copy_timer.remaining = 0
            /\ copy_log' = Append(copy_log, current_image_index)]_vars

\* A start was accepted on three items after an earlier run had been stopped
\* part way: item 0 is written, the cursor is at 1, and no time has passed.
C11_JustStarted ==
    /\ is_auto_processing
    /\ Len(images_to_process) = 3
    /\ copy_log = <<0>>
    /\ current_image_index = 1
    /\ auto_copy_timer.active
    /\ auto_copy_timer.remaining = auto_copy_timer.interval
    /\ clipboard.run # "none"
    /\ \E s \in BagToSet(single_shots) : s.run = "earlier"

\* The number of pending single-shot timers of a slot, and of pastes.
ShotCount(shots, slot) ==
    LET P == {s \in BagToSet(shots) : s.slot = slot}
    IN  BagCardinality([s \in P |-> CopiesIn(s, shots)])
PasteCount(shots) == ShotCount(shots, "paste")

\* The step performs the clipboard write of an item.
WriteStep == RunBegins \/ NextItemProcessed

\* The copy of the step's item succeeded: the clipboard holds that item.
CopySucceeded ==
    clipboard' = [run |-> "current", idx |-> current_image_index' - 1]

\* C12.  When the copy of an item fails the run is not aborted: no paste is
\* issued for the item, the copy is not retried, the cursor advances by one
\* and the next item (or the grace delay after the last) is scheduled as after
\* a success; so a run never issues more pastes than it had successful copies.
\* Stated on steps: a write step schedules one paste if the copy succeeded and
\* none if it failed, leaves the run Processing with the cursor one further,
\* and arms the timer or the grace delay; no other step schedules a paste.
C12_FailedCopyIsSkipped ==
    [][/\ WriteStep =>
            /\ PasteCount(single_shots') =
                  PasteCount(single_shots) + (IF CopySucceeded THEN 1 ELSE 0)
            /\ is_auto_processing'
            /\ copy_log' = IF RunBegins THEN <<0>>
                           ELSE Append(copy_log, current_image_index)
            /\ IF current_image_index' < Len(images_to_process')
               THEN /\ auto_copy_timer'.active
                    /\ auto_copy_timer'.remaining = auto_copy_timer'.interval
               ELSE /\ ShotCount(single_shots', "stop") =
                          ShotCount(single_shots, "stop") + 1
                    /\ \E s \in BagToSet(single_shots') :
                          /\ s.slot = "stop" /\ s.run = "current"
                          /\ s.remaining = GraceMs
       /\ ~WriteStep => PasteCount(single_shots') <= PasteCount(single_shots)]_vars

\* Two of three items are processed, both copies failed: no paste is pending,
\* the run goes on and the timer is armed for the third item.
C12_RunGoesOnAfterFailures ==
    /\ is_auto_processing
    /\ Len(images_to_process) = 3
    /\ copy_log = <<0, 1>>
    /\ current_image_index = 2
    /\ clipboard.run # "current"
    /\ PasteCount(single_shots) = 0
    /\ auto_copy_timer.active
    /\ auto_copy_timer.remaining = auto_copy_timer.interval

\* C13.  A start request issued while Idle with an empty asset list is
\* rejected: the runner stays Idle, no timer is armed, and no clipboard write
\* or paste is performed.
C13_EmptyStartRejected ==
    [][(StartDelivered /\ ~is_auto_processing /\ get_temp_image_files = <<>>) =>
            /\ ~is_auto_processing'
            /\ ~auto_copy_timer'.active
            /\ UNCHANGED <<auto_copy_timer, single_shots, clipboard, copy_log,
                           current_image_index>>]_vars

\* After a run that processed items, a start on an empty directory was
\* delivered: the listing it stored is empty, the rest is as the run left it.
C13_EmptyStartAfterRun ==
    /\ ~is_auto_processing
    /\ images_to_process = <<>>
    /\ current_image_index >= 1
    /\ copy_log # <<>>
    /\ get_temp_image_files = <<>>

\* C14.  The snapshot of a run is fixed when the run starts: files added to,
\* deleted from or re-listed in the scratch directory while the run is
\* Processing change neither the sequence the run iterates over nor its length.
C14_SnapshotFixed ==
    [][is_auto_processing => images_to_process' = images_to_process]_vars

\* A run is under way and the directory no longer lists what the run
\* snapshotted.
C14_DirectoryChangedMidRun ==
    /\ is_auto_processing
    /\ Len(images_to_process) >= 2
    /\ current_image_index >= 1
    /\ current_image_index < Len(images_to_process)
    /\ get_temp_image_files # images_to_process
    /\ Len(get_temp_image_files) # Len(images_to_process)

----------------------------------------------------------------------------
\* The place of entry f in the order of modification times.
MtimeRank(f) == CHOOSE i \in 1..Len(by_mtime) : by_mtime[i] = f

\* The sequence lists entries of the directory, earlier modified first.
AscendingMtime(seq) ==
    \A i, j \in 1..Len(seq) :
        (i < j /\ seq[i] \in disk /\ seq[j] \in disk)
            => MtimeRank(seq[i]) < MtimeRank(seq[j])

\* C15.  The asset listing, and so the order in which a hotkey-triggered run
\* processes the files of the scratch directory, is ascending last-modified
\* time, whatever the names and modification times of the files.
\* Stated on the listing the runner takes and on the step that begins a run:
\* the snapshot lists the files earlier modified first.
C15_RunInMtimeOrder ==
    [][/\ AscendingMtime(get_temp_image_files)
       /\ RunBegins => AscendingMtime(images_to_process')]_vars

\* The regular files of the directory with an extension of the allow-list.
AllowedFiles == {f \in disk : kind[f] \in {"png", "gif"}}

\* C16.  A listing of the scratch directory returns exactly the regular files
\* directly inside it whose extension is one of png, jpg, jpeg, tiff, bmp, gif;
\* the listing the runner snapshots and the listing the store tracks after a
\* refresh contain the same files.
C16_ListingsAreTheAllowedFiles ==
    Listable =>
        /\ Range(get_temp_image_files) = AllowedFiles
        /\ {p.file : p \in Range(ListTracked)} = AllowedFiles
        /\ \A p \in Range(ListTracked) : p.dir = dirs_created

\* Nothing can be listed: temp_dir is unset, the directory is gone or
\* unreadable, or it is empty.
NothingToList == ~Listable \/ disk = {}

\* C17.  Listing assets when the scratch directory is unset, does not exist,
\* is unreadable or is empty returns an empty list and does not raise; the
\* tracked list becomes empty, and the runner, if a start was requested, stays
\* Idle.
\* Stated on steps taken where nothing can be listed: both listings are
\* empty, a refresh leaves the tracked list empty, and the delivery of a start
\* request leaves the runner Idle.
C17_NothingToListIsEmpty ==
    [][NothingToList =>
          /\ get_temp_image_files = <<>>
          /\ ListTracked = <<>>
          /\ refresh_temp_files => temp_files' = <<>>
          /\ (StartDelivered /\ ~is_auto_processing) =>
                (~is_auto_processing' /\ images_to_process' = <<>>)]_vars

\* The directory holds an image file and has become unreadable while a file
\* is tracked and a start request waits: the refresh that empties the tracked
\* list and the start that stays Idle are the next steps.
C17_UnreadableWithWork ==
    /\ temp_dir
    /\ dir_state = "unreadable"
    /\ \E f \in disk : kind[f] = "png"
    /\ temp_files # <<>>
    /\ ~is_auto_processing
    /\ command_r_queue > 0
    /\ ENABLED (refresh_temp_files /\ temp_files' = <<>>)
    /\ ENABLED (start_auto_copy_paste /\ ~is_auto_processing')

\* The selections and the failing deletions a call is checked for.
Selections == SeqsOf(AllPaths, 1, MaxSelected)

\* C18.  deleteAssets given a path whose file is already gone from disk
\* succeeds without raising and reports that path as deleted; after the call
\* the path is no longer in the tracked list, and a failure on one path does
\* not prevent the remaining paths from being processed.
\* Stated on the step of a call: the count returned covers the selected paths
\* that were already gone, no such path is tracked afterwards, and every
\* selected file whose deletion does not fail is gone from the directory.
C18_GonePathReportedDeleted ==
    [][\A selected_files \in Selections, failing \in SUBSET AllPaths :
          delete_selected_files(selected_files, failing) =>
              LET gone == {p \in Range(selected_files) : ~Exists(p, disk)}
              IN  /\ deleted_count' >= Cardinality(gone)
                  /\ \A p \in gone : p \notin Range(temp_files')
                  /\ \A p \in Range(selected_files) \ failing :
                         ~Exists(p, disk')]_vars

C20_CreateIsIdempotent ==
    [][(create_temp_directory /\ temp_dir) =>
          UNCHANGED <<temp_dir, dirs_created, disk>>]_vars

----------------------------------------------------------------------------
\* C22.  A failure to read the global key state on one poll tick does not end
\* the listener: the polling loop keeps ticking, and a chord pressed after the
\* failed tick is still detected, for as long as the watcher is running.
\* Stated on states: while the watcher is running a loop is alive.
C22_LoopSurvivesFailedRead == kbd_is_running => loops_alive >= 1

\* C24.  startListening while the watcher is already running is a no-op, so
\* that after any sequence of startListening and stopListening calls at most
\* one polling loop is alive and each chord press is observed by at most one
\* loop.
\* Stated on steps: a loop is started only while the watcher is not running
\* and no loop is alive, and never more than one loop is alive.
C24_AtMostOneLoop ==
    [][/\ loops_alive <= 1
       /\ loops_alive' <= 1
       /\ loops_alive' > loops_alive => (~kbd_is_running /\ loops_alive = 0)]_vars

\* The watcher is running, its loop has polled the held chord and sleeps, and
\* start_listening can be called again.
C24_StartWhileRunning ==
    /\ kbd_is_running
    /\ loops_alive = 1
    /\ kbd_thread = "sleep"
    /\ chord_held
    /\ callback_count >= 1
    /\ ENABLED start_listening

\* C25.  stopListening can be called in any state without error (never
\* started, running, already stopped): it leaves running = false, waits a
\* bounded time for the loop, and the polling loop exits at its next check of
\* the flag and invokes no callback after that.
\* Stated on steps: stop_listening can be the next step in every state; the
\* step that clears the flag invokes nothing; a loop that tests the cleared
\* flag ends; and while no loop is alive the callback is not invoked.
C25_StopEndsTheLoop ==
    [][/\ ENABLED stop_listening
       /\ (kbd_is_running /\ ~kbd_is_running') =>
              UNCHANGED <<kbd_thread, callback_count, command_r_queue>>
       /\ (~kbd_is_running /\ kbd_thread = "test" /\ kbd_thread' # "test") =>
              kbd_thread' = "done"
       /\ kbd_thread \in Ended =>
              (callback_count' = callback_count /\ command_r_queue' <= command_r_queue)]_vars

\* The watcher has run, has invoked the callback and was stopped while the
\* chord is held: its loop has ended.
C25_StoppedWhileHeld ==
    /\ ~kbd_is_running
    /\ kbd_thread = "done"
    /\ loops_alive = 0
    /\ chord_held
    /\ callback_count >= 1

----------------------------------------------------------------------------
\* C21.  Session teardown releases the document if one is held, deletes every
\* tracked asset that still exists, and then removes the scratch directory;
\* if removing the directory fails because it is not empty or permission is
\* denied, teardown still completes and only a warning is reported.
\* Stated on the step of closeEvent that runs cleanup(): a document that was
\* open is closed; every tracked file whose deletion does not fail is gone and
\* no other file is; the directory is removed when it is empty then and the
\* removal is not denied, and is left as it is otherwise; in either case the
\* close event is accepted.
C21_TeardownCleansUp ==
    [][\A failing \in SUBSET AllPaths, denied \in BOOLEAN :
          closeEvent_reply("Yes", failing, denied) =>
              LET tracked == {p \in Range(temp_files) : Exists(p, disk)}
              IN  /\ doc = "open" => doc' = "closed"
                  /\ doc # "open" => doc' = doc
                  /\ \A p \in tracked \ failing : ~Exists(p, disk')
                  /\ disk' = disk \ {p.file : p \in tracked \ failing}
                  /\ (temp_dir /\ dir_state # "missing" /\ disk' = {} /\ ~denied)
                         => dir_state' = "missing"
                  /\ (disk' # {} \/ denied) => dir_state' = dir_state
                  /\ close_state' = "closed"]_vars

\* The window has closed after a cleanup that closed the document and deleted
\* a tracked file, with a file left in the directory that no list tracks: the
\* directory is still there.
C21_ClosedWithDirectoryLeft ==
    /\ close_state = "closed"
    /\ doc = "closed"
    /\ temp_files # <<>>
    /\ \A p \in Range(temp_files) : ~Exists(p, disk)
    /\ disk # {}
    /\ dir_state = "ok"

----------------------------------------------------------------------------
\* The step is one of the polling thread, inside _listen_loop.
PollingStep == kbd_thread \notin Ended /\ kbd_thread' # kbd_thread

\* C23.  The polling context never reads or writes the batch runner's or the
\* asset store's state: a detected chord only enqueues an event, and start
\* (directory listing, snapshot, cursor and flag updates, first clipboard
\* write) always executes on the single owning context, never interleaved
\* with another operation of that context.
\* Stated on steps: a step of the polling thread changes nothing of the
\* runner, the store and the directory and at most enqueues one event; a run
\* begins only in the delivery of a queued event; and no event is delivered
\* while closeEvent, a handler of the owning context, is under way.
C23_StartOnOwnerNotInterleaved ==
    [][/\ PollingStep =>
              /\ UNCHANGED <<runner_vars, env_vars, store_vars, session_vars, clip_vars>>
              /\ command_r_queue' \in {command_r_queue, command_r_queue + 1}
       /\ RunBegins => StartDelivered
       /\ StartDelivered => close_state = "open"]_vars

----------------------------------------------------------------------------
\* The number of items stop_auto_copy_paste reports as processed when it
\* stops the run now: len(images_to_process) of "已处理 N 张图片" when the
\* cursor is at the end, the cursor of "处理了 K/N 张" otherwise.
Reported ==
    IF current_image_index >= Len(images_to_process)
    THEN Len(images_to_process)
    ELSE current_image_index

\* C26.  At the end of a batch and at cancellation the runner reports success
\* and failure counts that match what happened: the reported number of
\* completed items equals the number of items of the snapshot whose transfer
\* was carried out successfully, items whose clipboard copy failed are counted
\* as failures, and the total equals the snapshot length.
\* Stated on the steps of a run: the number a stop would report as completed
\* never exceeds the snapshot length, and a step whose clipboard copy fails
\* does not add to it.
C26_ReportCountsSuccesses ==
    [][/\ is_auto_processing => Reported <= Len(images_to_process)
       /\ (NextItemProcessed /\ ~CopySucceeded) => Reported' = Reported]_vars

----------------------------------------------------------------------------
\* C27.  copyImageToClipboard returns failure (and never raises) when the file
\* is absent, the clipboard capability is unavailable, or the file cannot be
\* decoded; whenever it returns success the clipboard holds at least one
\* bitmap representation of that image, and a failure to produce the
\* secondary (PNG) representation alone does not turn a success into a
\* failure.
\* Stated on the latest call and the pasteboard it left.
C27_SuccessMeansImageOnClipboard ==
    \A i \in DOMAIN copy_call :
        LET c == copy_call[i].case
            result == copy_call[i].result
        IN  /\ (~c.exists \/ ~c.appkit \/ ~c.loads) => ~result
            /\ result => pasteboard # {}
            /\ (c.exists /\ c.appkit /\ c.loads /\ c.tiff) => result

----------------------------------------------------------------------------
\* C28.  triggerPaste never raises and never hangs: a nonzero exit of the
\* keystroke helper, a timeout, and any other exception each yield a failure
\* result, and the batch continues regardless of that result.
\* Every firing of the paste ends with a result, which is success exactly for
\* exit code 0, and leaves the run's flag, cursor, snapshot and timer as they
\* were.
C28_PasteFailsQuietly ==
    [][\A s \in BagToSet(single_shots), outcome \in PasteOutcomes :
           simulate_paste_fires(s, outcome) =>
               /\ paste_result' = IF outcome = "exit_0" THEN "ok" ELSE "failed"
               /\ UNCHANGED <<is_auto_processing, current_image_index,
                              images_to_process, auto_copy_timer>>]_vars

\* A paste failed in the middle of a run and the run went on to its next image.
C28_RunGoesOnAfterFailedPaste ==
    /\ paste_result = "failed"
    /\ is_auto_processing
    /\ current_image_index = 2
    /\ Len(images_to_process) >= 2
    /\ PasteCount(single_shots) = 1

----------------------------------------------------------------------------
\* C29.  Every accepted hotkey trigger takes its snapshot from a scan of the
\* scratch directory made inside that start call, never from a cached
\* listing.
\* A delivered start that is not rejected leaves the runner's list equal to
\* the listing of the directory as it is at that step.
C29_SnapshotScannedInsideStart ==
    [][(StartDelivered /\ ~is_auto_processing) =>
           images_to_process' = get_temp_image_files]_vars

\* A second run has just started on two files while the stop of a run before
\* it is still pending.
C29_SecondRunOnFreshListing ==
    /\ is_auto_processing
    /\ current_image_index = 1
    /\ Len(images_to_process) = 2
    /\ images_to_process = get_temp_image_files
    /\ \E s \in BagToSet(single_shots) : s.run = "earlier" /\ s.slot = "stop"

----------------------------------------------------------------------------
\* C30.  After any sequence of create-scratch-space, render-page, refresh,
\* delete, clear-all and teardown operations, every path in the tracked asset
\* list is a direct child of the session's current scratch directory, and the
\* scratch directory, once created, is never replaced by a different one.
\* Stated on states: every tracked path lies in the directory created last,
\* and no more than one directory was ever created.
C30_TrackedUnderTheOneDirectory ==
    /\ \A p \in Range(temp_files) : p.dir = dirs_created
    /\ dirs_created <= 1

----------------------------------------------------------------------------
\* C31.  Shutdown forces the runner to Idle and it stays Idle: once the close
\* sequence has cancelled an active run and stopped the hotkey watcher, no
\* hotkey event that was already emitted or queued before the watcher stopped
\* starts a new run, and no clipboard write or paste occurs after shutdown has
\* begun cancelling.
\* Stated on steps: from the state closeEvent leaves behind, every step leaves
\* the runner idle and the clipboard and the record of writes as they were.
C31_ShutdownKeepsRunnerIdle ==
    [][close_state # "open" =>
           /\ ~is_auto_processing'
           /\ clipboard' = clipboard
           /\ copy_log' = copy_log]_vars

----------------------------------------------------------------------------
\* C32.  Every accepted run eventually returns to Idle, assuming armed timers
\* eventually fire: for every N >= 1, every pattern of copy successes and
\* failures and every delay in [0.5, 60], the runner does not stay Processing
\* forever, with or without a cancel.
C32_RunReturnsToIdle == is_auto_processing ~> ~is_auto_processing

\* Every item of a run of two or more has been processed, the repeating timer
\* is still armed and the grace-delayed stop is pending: the run is not over.
C32_LastItemDone ==
    /\ is_auto_processing
    /\ Len(images_to_process) >= 2
    /\ current_image_index = Len(images_to_process)
    /\ auto_copy_timer.active
    /\ \E s \in BagToSet(single_shots) : s.slot = "stop" /\ s.run = "current"

----------------------------------------------------------------------------
\* C33.  In every reachable state, if the runner is Idle then the repeating
\* inter-item timer is not armed, so no next-item processing step can fire
\* while Idle; the timer is armed only while Processing.
C33_TimerArmedOnlyWhileProcessing ==
    /\ auto_copy_timer.active => is_auto_processing
    /\ ~is_auto_processing => ~ENABLED TimerTimeout

\* A run was stopped part way while the paste of its latest item is still
\* pending: the runner is idle and items are left.
C33_IdleWithItemsLeft ==
    /\ ~is_auto_processing
    /\ current_image_index >= 1
    /\ current_image_index < Len(images_to_process)
    /\ PasteCount(single_shots) >= 1

----------------------------------------------------------------------------
\* C34.  In every reachable state 0 <= cursor <= length of the snapshot; the
\* cursor increases by exactly one per processing step and never decreases
\* during a run, and a clipboard write is only ever attempted at an index
\* strictly below the snapshot length, including when the repeating
\* inter-item timer fires again after the last item.
\* Stated on steps and the states they start and end in: the cursor lies
\* within the snapshot; a step that adds a write to the record writes the item
\* at the cursor, which lies below the snapshot length, and moves the cursor
\* by one; within a run the cursor does not go down; and the timer firing
\* with the cursor at the end writes nothing.
C34_CursorWithinSnapshot ==
    [][/\ 0 <= current_image_index
       /\ current_image_index <= Len(images_to_process)
       /\ current_image_index' <= Len(images_to_process')
       /\ (copy_log' # copy_log /\ copy_log' # <<>>) =>
              /\ copy_log'[Len(copy_log')] < Len(images_to_process')
              /\ current_image_index' = copy_log'[Len(copy_log')] + 1
       /\ (is_auto_processing /\ is_auto_processing') =>
              current_image_index' \in {current_image_index, current_image_index + 1}
       /\ (TimerTimeout /\ current_image_index >= Len(images_to_process)) =>
              UNCHANGED <<copy_log, clipboard, current_image_index>>]_vars

====
